---- MODULE Spec2Model ----
(***************************************************************************)
(* Model of the butler-assistant core:                                     *)
(*   - ButlerAgent.run / ButlerAgent._execute_tool_call                     *)
(*     (src/agents/butler_agent.py): the turn-resolution loop with its     *)
(*     asyncio.gather fan-out, and the tool invoker;                        *)
(*   - initialize_app_tools (src/tools/loader.py): the tool registry build, *)
(*     also from a configuration file (src/tools/config_loader.py,          *)
(*     src/tools/external_tool_loaders.py);                                 *)
(*   - voice_chat (src/main.py): the session loop around the agent.         *)
(***************************************************************************)
EXTENDS Integers, Sequences, FiniteSets, TLC

(* ------------------------------ bounds --------------------------------- *)

\* calls of ButlerAgent.run in one session
MaxTurns == 2
\* "tool_calls" responses of the completion service in one session
MaxBatches == 2
\* tool calls requested in one session (a batch takes at most what is left)
MaxCalls == 2

(* ------------------------- agent: constants ---------------------------- *)

MODEL_NAME == "default-model"
HIGH_POWER_MODEL == "high-power-model"

BlockedMsg == "[Action Blocked] Cannot write to notes while in private mode."
UnknownMsg == "unknown tool"
ErrorMsg == "[tool-error]"
OkMsg == "ok"

\* the note-writing block-list of the private-mode gate
NoteWritingTools == {"append_note", "append_core_memory"}

\* names the completion service may request; "ghost" is registered nowhere
CallNames == {"calculator", "append_note", "enable_private_mode", "ghost"}

\* the names _execute_tool_call switches a mode flag for
ControlTools ==
    {"quit_chat", "reset_chat", "enable_high_brain_power",
     "enable_private_mode"}

\* wire form of a call's arguments: a JSON object, valid JSON that is not an
\* object, or text that is not JSON at all
ArgKinds == {"object", "nonobject", "malformed"}

\* the (name, arguments) pairs the completion service requests in this model
CallTypes ==
    {<<n, "object">> : n \in CallNames}
        \cup {<<"calculator", "nonobject">>,
              <<"append_note", "malformed">>}

\* calling convention of a registered implementation:
\* "sync" plain function, "async" coroutine function, "tool" BaseTool object
Convention(name) ==
    CASE name = "ai_web_search" -> "async"
      [] name = "wikipedia" -> "tool"
      [] OTHER -> "sync"

(* --------------------------- agent: state ------------------------------ *)

VARIABLES
    history,              \* self.history
    model_name,           \* self.model_name
    exit_requested,       \* self.exit_requested
    reset_requested,      \* self.reset_requested
    private_chat,         \* self.private_chat
    tool_implementations, \* names that have an implementation registered
    pc,                   \* position of run: "idle", "awaiting", "executing"
    batch,                \* the tasks of the gather of the current turn
    orphans,              \* tasks still running after their gather raised
    outcome,              \* how the last call of run ended
    reply,                \* value returned by the last call of run
    planned,              \* "tool_calls" responses the service gives this turn
    nCompletions,         \* completion requests issued in this turn
    nBatches,             \* dispatch batches performed in this turn
    turns,                \* calls of run so far
    batchesUsed,          \* "tool_calls" responses so far in the session
    nextId,               \* next tool-call id the completion service hands out
    impl_calls,           \* call count of every implementation
    log_writable,         \* whether the tool-call log file can be written
    tool_log,             \* entries written to the tool-call log
    request_model,        \* model named by the latest completion request
    conversation,         \* the argument of the latest call of run
    reg_pc,               \* position of initialize_app_tools
    settings,             \* the settings section of the tools configuration
    final_implementations, \* name -> implementation, as merged so far
    final_schemas,        \* candidate schemas, in merge order
    ret_implementations,  \* the implementation map returned
    ret_schemas,          \* the schema list returned
    tools_config,         \* tools_config.yaml and the environment of its tools
    ctl,                  \* position of voice_chat
    handled,              \* turns voice_chat has dealt with after run returned
    summaries,            \* records passed to save_session_summary
    stop_chime,           \* whether the stop event of the waiting music is set
    music_task,           \* state of the task of play_waiting_music
    position              \* chunk of the waiting music that is played next

agentVars ==
    <<history, model_name, exit_requested, reset_requested, private_chat,
      tool_implementations, pc, batch, orphans, outcome, reply, planned,
      nCompletions, nBatches, turns, batchesUsed, nextId, impl_calls,
      log_writable, tool_log, request_model, conversation>>

regVars ==
    <<reg_pc, settings, final_implementations, final_schemas,
      ret_implementations, ret_schemas, tools_config>>

musicVars == <<stop_chime, music_task, position>>

chatVars == <<ctl, handled, summaries, musicVars>>

vars == <<agentVars, regVars, chatVars>>

flagVars == <<model_name, exit_requested, reset_requested, private_chat>>
turnCounters == <<nCompletions, nBatches, turns, batchesUsed>>

(* -------------------------- agent: messages ---------------------------- *)

Msg(role, content, id, calls) ==
    [role |-> role, content |-> content, tool_call_id |-> id,
     tool_calls |-> calls, function_names |-> <<>>]

SystemMsg == Msg("system", "persona", 0, <<>>)
UserMsg == Msg("user", "utterance", 0, <<>>)
AssistantText(text) == Msg("assistant", text, 0, <<>>)

\* the assistant message of a "tool_calls" response: it carries the ids and
\* the function names of the requested calls in request order
AssistantCalls(b) ==
    [Msg("assistant", "", 0, [i \in 1..Len(b) |-> b[i].id])
        EXCEPT !.function_names = [i \in 1..Len(b) |-> b[i].name]]

\* mutant of ToolMsg: the result is tagged with a stale id
ToolMsgStaleId(c) == Msg("tool", c.result, c.id - 1, <<>>)

\* the tool-role message _execute_tool_call returns for a finished call
ToolMsg(c) == Msg("tool", c.result, c.id, <<>>)

\* str.strip() on the reply text of a "stop" response
Strip(raw) ==
    CASE raw = " answer " -> "answer"
      [] raw = "   " -> ""
      [] OTHER -> raw

RawReplies == {" answer ", "answer"}

\* mutant of Extend: the new messages are put in front of the record
ExtendFront(h, msgs) == msgs \o h

\* list.extend: the new messages go to the end of the record
Extend(h, msgs) == h \o msgs

(* ------------------------ registry: sources ---------------------------- *)

\* tools an external source (community, remote servers) loads; the remote
\* source loads at most what the community schemas leave of it. Also the
\* entries of the community and the servers section of a configuration file,
\* taken together.
MaxExtTools == 2

\* tool names of the model
RegNames ==
    {"quit_chat", "calculator", "wikipedia", "append_note",
     "append_core_memory", "semantic_search", "list_vault_files",
     "arxiv", "pubmed", "mcp_search", "mcp_fetch", "mcp_time"}

\* the built-in registries, by name and in schema order (two of the nine core
\* tools, one tool of every other registry)
CORE_TOOL_SCHEMAS == <<"quit_chat", "calculator">>
OBSIDIAN_TOOL_SCHEMAS == <<"append_note">>
CORE_MEMORY_TOOL_SCHEMA == "append_core_memory"
OBSIDIAN_FALLBACK_SCHEMAS == <<"list_vault_files">>
RagToolSchemas == <<"semantic_search">>

\* names a community tool or a remote tool can carry (its own name or the
\* name an override gives it): one collides with a core tool, one with an
\* obsidian tool, one with nothing
ExtNames == {"calculator", "append_note", "wikipedia"}

\* a tool of an external source: its name and whether
\* convert_to_openai_function succeeds on it
ExtTools ==
    {[name |-> n, converts |-> TRUE] : n \in ExtNames}
        \cup {[name |-> "wikipedia", converts |-> FALSE]}

ExtToolSeqs(n) == UNION {[1..k -> ExtTools] : k \in 0..n}

NoImpl == [src |-> "none", idx |-> 0]
NoImplementations == [n \in RegNames |-> NoImpl]

Impl(src, idx) == [src |-> src, idx |-> idx]
Schema(name, src, idx, shape) ==
    [name |-> name, src |-> src, idx |-> idx, shape |-> shape]

Range(f) == {f[i] : i \in DOMAIN f}

Keys(impls) == {n \in RegNames : impls[n] # NoImpl}

\* dict.update: the entries of e replace those of d
DictUpdate(d, e) == [n \in RegNames |-> IF e[n] # NoImpl THEN e[n] ELSE d[n]]

\* a built-in registry filtered by the enabled names of its config section:
\* implementations and wrapped schemas of the enabled tools
BuiltinImpls(names, src, enabled) ==
    [n \in RegNames |->
        IF n \in Range(names) /\ n \in enabled
        THEN Impl(src, CHOOSE i \in DOMAIN names : names[i] = n)
        ELSE NoImpl]

BuiltinSchemas(names, src, enabled) ==
    LET all == [i \in DOMAIN names |-> Schema(names[i], src, i, "wrapped")]
    IN SelectSeq(all, LAMBDA sc : sc.name \in enabled)

\* load_community_tools: every tool that instantiates is registered under
\* its name (a later one replaces an earlier one of the same name) and then
\* converted; a tool whose conversion raises keeps its implementation and
\* contributes no schema
RECURSIVE CommunityImpls(_, _)
CommunityImpls(tools, k) ==
    IF k = 0 THEN NoImplementations
    ELSE [CommunityImpls(tools, k - 1) EXCEPT
             ![tools[k].name] = Impl("community", k)]

CommunitySchemas(tools) ==
    LET all == [i \in DOMAIN tools |->
                   Schema(tools[i].name, "community", i,
                          IF tools[i].converts THEN "raw" ELSE "none")]
    IN SelectSeq(all, LAMBDA sc : sc.shape # "none")

\* load_mcp_tools: as above, but the first conversion that raises ends the
\* loop (the except clause around it returns what was collected)
McpLoaded(tools) ==
    LET bad == {i \in DOMAIN tools : ~tools[i].converts}
    IN IF bad = {} THEN Len(tools)
       ELSE CHOOSE i \in bad : \A j \in bad : i <= j

RECURSIVE McpImpls(_, _)
McpImpls(tools, k) ==
    IF k = 0 THEN NoImplementations
    ELSE [McpImpls(tools, k - 1) EXCEPT ![tools[k].name] = Impl("mcp", k)]

McpSchemas(tools) ==
    LET all == [i \in 1..McpLoaded(tools) |->
                   Schema(tools[i].name, "mcp", i,
                          IF tools[i].converts THEN "raw" ELSE "none")]
    IN SelectSeq(all, LAMBDA sc : sc.shape # "none")

(* ---------------------- registry: de-duplication ----------------------- *)

\* a schema without the "function" key is wrapped
Wrap(sc) ==
    IF sc.shape = "raw" THEN [sc EXCEPT !.shape = "wrapped"]
    ELSE IF sc.shape = "raw_noname" THEN [sc EXCEPT !.shape = "wrapped_noname"]
    ELSE sc

\* after wrapping, a schema is kept when its function record has a name
WellFormed(sc) == sc.shape = "wrapped"

\* "name" not in schema.get("function", {}) raises TypeError when the
\* "function" entry is present and no container (None, a number): the default
\* of get applies to a missing key only
MembershipRaises(sc) == sc.shape = "wrapped_nonrecord"

\* the loop over the candidates raises at the first such candidate
NormaliseRaises(schemas) ==
    \E i \in DOMAIN schemas : MembershipRaises(schemas[i])

\* the de-duplication loop over the first k candidates: the unique schemas
\* and the seen names
RECURSIVE Dedup(_, _)
Dedup(schemas, k) ==
    IF k = 0 THEN [unique |-> <<>>, seen |-> {}]
    ELSE LET acc == Dedup(schemas, k - 1)
             sc == schemas[k]
         IN IF sc.shape = "nondict" THEN acc
            ELSE IF ~WellFormed(Wrap(sc)) THEN acc
            ELSE IF Wrap(sc).name \in acc.seen THEN acc
            ELSE [unique |-> Append(acc.unique, Wrap(sc)),
                  seen |-> acc.seen \cup {sc.name}]

\* mutant of FilterImplementations: the merged map is returned as it is
KeepAllImplementations(impls, seen) == impls

\* the implementation map is cut down to the seen names it has
FilterImplementations(impls, seen) ==
    [n \in RegNames |-> IF n \in seen /\ impls[n] # NoImpl THEN impls[n]
                        ELSE NoImpl]

(* ------------------------ registry: the build -------------------------- *)

DefaultSettings ==
    [include_obsidian_tools |-> TRUE, use_core_memory |-> FALSE,
     use_mcp_tools |-> FALSE, use_semantic_search |-> FALSE]

SettingsSpace ==
    [include_obsidian_tools : BOOLEAN, use_core_memory : BOOLEAN,
     use_mcp_tools : BOOLEAN, use_semantic_search : BOOLEAN]

(* --------------------- registry: configuration ------------------------- *)

\* The configuration file together with the environment of the tools it
\* names. valid: validate_config_schema accepts the file. The four built-in
\* sections are given by the names they enable. A community tool has its
\* enabled flag, whether its required environment variables are set, and how
\* loading it ends: "ok", "raises" (the class is missing or its constructor
\* raises) or "noschema" (the conversion raises). A remote server has its
\* enabled flag, its environment variables, whether it can be reached, the
\* one tool it offers and how its tools list mentions that tool: "enabled",
\* "disabled" or "unlisted".

\* names by position in the section
CommunityName(i) ==
    CASE i = 1 -> "wikipedia"
      [] i = 2 -> "arxiv"
      [] OTHER -> "pubmed"

McpToolName(i) ==
    CASE i = 1 -> "mcp_search"
      [] i = 2 -> "mcp_fetch"
      [] OTHER -> "mcp_time"

CommunityKinds ==
    {<<FALSE, TRUE, "ok">>, <<TRUE, FALSE, "ok">>, <<TRUE, TRUE, "raises">>,
     <<TRUE, TRUE, "noschema">>, <<TRUE, TRUE, "ok">>}

CommunityConfig(i, k) ==
    [name |-> CommunityName(i), enabled |-> k[1], env_ok |-> k[2],
     loads |-> k[3]]

ServerKinds ==
    {<<FALSE, TRUE, TRUE, "enabled">>, <<TRUE, FALSE, TRUE, "enabled">>,
     <<TRUE, TRUE, FALSE, "enabled">>, <<TRUE, TRUE, TRUE, "enabled">>,
     <<TRUE, TRUE, TRUE, "disabled">>, <<TRUE, TRUE, TRUE, "unlisted">>}

ServerConfig(i, k) ==
    [name |-> i, enabled |-> k[1], env_ok |-> k[2], reachable |-> k[3],
     tool |-> McpToolName(i), listing |-> k[4]]

CommunitySections(n) ==
    UNION {{[i \in 1..m |-> CommunityConfig(i, ks[i])] :
               ks \in [1..m -> CommunityKinds]} : m \in 0..n}

ServerSections(n) ==
    UNION {{[i \in 1..m |-> ServerConfig(i, ks[i])] :
               ks \in [1..m -> ServerKinds]} : m \in 0..n}

\* the community section and the servers section of a file: together at
\* most MaxExtTools entries
ExtSections ==
    UNION {{<<ct, ms>> : ms \in ServerSections(MaxExtTools - Len(ct))} :
              ct \in CommunitySections(MaxExtTools)}

\* the settings section of a file that has one
FileSettings ==
    {[include_obsidian_tools |-> b, use_core_memory |-> TRUE,
      use_mcp_tools |-> TRUE, use_semantic_search |-> FALSE] :
        b \in BOOLEAN}

ConfigFiles ==
    {[valid |-> v, settings |-> st, core_tools |-> c, obsidian_tools |-> o,
      memory_tools |-> m, fallback_tools |-> f, community_tools |-> x[1],
      mcp_servers |-> x[2]] :
        v \in BOOLEAN, st \in FileSettings,
        c \in SUBSET Range(CORE_TOOL_SCHEMAS),
        o \in SUBSET Range(OBSIDIAN_TOOL_SCHEMAS),
        m \in SUBSET {CORE_MEMORY_TOOL_SCHEMA},
        f \in SUBSET Range(OBSIDIAN_FALLBACK_SCHEMAS),
        x \in ExtSections}

\* the empty dictionary load_config returns for a file it rejects; a section
\* it lacks reads as empty, a setting it lacks as its default
EmptyConfig ==
    [valid |-> TRUE, settings |-> DefaultSettings, core_tools |-> {},
     obsidian_tools |-> {}, memory_tools |-> {}, fallback_tools |-> {},
     community_tools |-> <<>>, mcp_servers |-> <<>>]

\* load_config: one schema error anywhere in the file gives the empty
\* dictionary
LoadConfig(file) == IF file.valid THEN file ELSE EmptyConfig

GetSettings(file) == LoadConfig(file).settings

\* get_tool_names_from_section, for a built-in section
GetToolNamesFromSection(file, section) == LoadConfig(file)[section]

\* get_enabled_tools_from_section, for the community and the servers section
GetEnabledToolsFromSection(file, section) ==
    SelectSeq(LoadConfig(file)[section], LAMBDA t : t.enabled)

\* mutant of CredentialsPresent: the variables are not looked at
CredentialsIgnored(t) == TRUE

\* no variable of required_env_vars is missing from the environment
CredentialsPresent(t) == t.env_ok

\* load_community_tools: the tools it instantiates, in order. A tool without
\* its credentials is skipped, and so is one whose class is missing or whose
\* constructor raises.
CommunityInstantiated(configs) ==
    LET ok == SelectSeq(configs,
                  LAMBDA t : CredentialsPresent(t) /\ t.loads # "raises")
    IN [i \in 1..Len(ok) |->
           [name |-> ok[i].name, converts |-> ok[i].loads = "ok"]]

\* load_mcp_tools: the servers handed to the client
ProcessedServers(servers) ==
    SelectSeq(servers, LAMBDA sv : CredentialsPresent(sv))

\* client.get_tools() is one call for all processed servers: it raises when
\* one of them cannot be reached
ClientRaises(servers) == \E i \in DOMAIN servers : ~servers[i].reachable

\* load_mcp_tools: the tools it registers, in order: none when the client
\* raises, otherwise every offered tool that the tools list of a server does
\* not mention as disabled
McpOffered(servers) ==
    LET ps == ProcessedServers(servers)
        on == SelectSeq(ps, LAMBDA sv : sv.listing # "disabled")
    IN IF ClientRaises(ps) THEN <<>>
       ELSE [i \in 1..Len(on) |-> [name |-> on[i].tool, converts |-> TRUE]]

ExtLoaded == Cardinality({i \in DOMAIN final_schemas :
                 final_schemas[i].src \in {"community", "mcp"}})

RegInit ==
    /\ reg_pc = "core"
    /\ tools_config = EmptyConfig
    /\ settings \in SettingsSpace
    /\ final_implementations = NoImplementations
    /\ final_schemas = <<>>
    /\ ret_implementations = NoImplementations
    /\ ret_schemas = <<>>

\* 1. the core tools enabled in the core_tools section
LoadCoreTools(enabled) ==
    /\ reg_pc = "core"
    /\ final_implementations' = BuiltinImpls(CORE_TOOL_SCHEMAS, "core", enabled)
    /\ final_schemas' = BuiltinSchemas(CORE_TOOL_SCHEMAS, "core", enabled)
    /\ reg_pc' = "community"
    /\ UNCHANGED <<tools_config, settings, ret_implementations, ret_schemas,
                   agentVars, chatVars>>

\* 2. the community tools
LoadCommunityTools(tools) ==
    /\ reg_pc = "community"
    /\ final_implementations' =
           DictUpdate(final_implementations, CommunityImpls(tools, Len(tools)))
    /\ final_schemas' = final_schemas \o CommunitySchemas(tools)
    /\ reg_pc' = "mcp"
    /\ UNCHANGED <<tools_config, settings, ret_implementations, ret_schemas,
                   agentVars, chatVars>>

\* 3. the remote-server tools, when use_mcp_tools is set
LoadMcpTools(tools) ==
    /\ reg_pc = "mcp"
    /\ settings.use_mcp_tools
    /\ final_implementations' =
           DictUpdate(final_implementations, McpImpls(tools, McpLoaded(tools)))
    /\ final_schemas' = final_schemas \o McpSchemas(tools)
    /\ reg_pc' = "obsidian"
    /\ UNCHANGED <<tools_config, settings, ret_implementations, ret_schemas,
                   agentVars, chatVars>>

SkipMcpTools ==
    /\ reg_pc = "mcp"
    /\ ~settings.use_mcp_tools
    /\ reg_pc' = "obsidian"
    /\ UNCHANGED <<tools_config, settings, final_implementations, final_schemas,
                   ret_implementations, ret_schemas, agentVars, chatVars>>

\* the memory tool, inside the obsidian branch, when use_core_memory is set
MemoryNames(enabledMemory) ==
    IF settings.use_core_memory THEN enabledMemory ELSE {}

\* mutant of UseRag: the semantic-search setting is not consulted
UseRagUnchecked(ragOk) == ragOk

\* if rag_service and USE_SEMANTIC_SEARCH, and get_rag_tools returns: the RAG
\* tools are registered; in every other case the fallback tools are
UseRag(ragOk) == settings.use_semantic_search /\ ragOk

\* 4. the obsidian tools, the memory tool, and the RAG tools or, when
\* semantic search is off, no service is given or get_rag_tools raises, the
\* fallback tools
LoadObsidianTools(enabledObsidian, enabledMemory, enabledFallback, ragOk) ==
    /\ reg_pc = "obsidian"
    /\ settings.include_obsidian_tools
    /\ LET rag == UseRag(ragOk)
           mem == MemoryNames(enabledMemory)
           retrieval == IF rag THEN RagToolSchemas
                        ELSE OBSIDIAN_FALLBACK_SCHEMAS
           rsrc == IF rag THEN "rag" ELSE "fallback"
           renabled == IF rag THEN Range(RagToolSchemas) ELSE enabledFallback
       IN /\ final_implementations' =
                 DictUpdate(
                     DictUpdate(
                         DictUpdate(final_implementations,
                             BuiltinImpls(OBSIDIAN_TOOL_SCHEMAS, "obsidian",
                                          enabledObsidian)),
                         BuiltinImpls(<<CORE_MEMORY_TOOL_SCHEMA>>, "memory",
                                      mem)),
                     BuiltinImpls(retrieval, rsrc, renabled))
          /\ final_schemas' =
                 final_schemas
                     \o BuiltinSchemas(OBSIDIAN_TOOL_SCHEMAS, "obsidian",
                                       enabledObsidian)
                     \o BuiltinSchemas(<<CORE_MEMORY_TOOL_SCHEMA>>, "memory",
                                       mem)
                     \o BuiltinSchemas(retrieval, rsrc, renabled)
    /\ reg_pc' = "dedup"
    /\ UNCHANGED <<tools_config, settings, ret_implementations, ret_schemas,
                   agentVars, chatVars>>

SkipObsidianTools ==
    /\ reg_pc = "obsidian"
    /\ ~settings.include_obsidian_tools
    /\ reg_pc' = "dedup"
    /\ UNCHANGED <<tools_config, settings, final_implementations, final_schemas,
                   ret_implementations, ret_schemas, agentVars, chatVars>>

\* the de-duplication loop raises: initialize_app_tools returns nothing
NormaliseFails ==
    /\ reg_pc = "dedup"
    /\ NormaliseRaises(final_schemas)
    /\ reg_pc' = "raised"
    /\ UNCHANGED <<tools_config, settings, final_implementations, final_schemas,
                   ret_implementations, ret_schemas, agentVars, chatVars>>

\* final de-duplication and cleanup, and the return
ReturnTools ==
    /\ reg_pc = "dedup"
    /\ ~NormaliseRaises(final_schemas)
    /\ LET d == Dedup(final_schemas, Len(final_schemas))
       IN /\ ret_schemas' = d.unique
          /\ ret_implementations' =
                 FilterImplementations(final_implementations, d.seen)
    /\ reg_pc' = "done"
    /\ UNCHANGED <<tools_config, settings, final_implementations, final_schemas,
                   agentVars, chatVars>>

RegNext ==
    \/ \E enabled \in SUBSET Range(CORE_TOOL_SCHEMAS) : LoadCoreTools(enabled)
    \/ \E tools \in ExtToolSeqs(MaxExtTools) : LoadCommunityTools(tools)
    \/ \E tools \in ExtToolSeqs(MaxExtTools - ExtLoaded) : LoadMcpTools(tools)
    \/ SkipMcpTools
    \/ \E eo \in SUBSET Range(OBSIDIAN_TOOL_SCHEMAS),
          em \in SUBSET {CORE_MEMORY_TOOL_SCHEMA},
          ef \in SUBSET Range(OBSIDIAN_FALLBACK_SCHEMAS),
          ragOk \in BOOLEAN :
           LoadObsidianTools(eo, em, ef, ragOk)
    \/ SkipObsidianTools
    \/ ReturnTools

(* ---------------------------- agent: Init ------------------------------ *)

AgentConstructed ==
    /\ history = <<SystemMsg>>
    /\ model_name = MODEL_NAME
    /\ exit_requested = FALSE
    /\ reset_requested = FALSE
    /\ private_chat = FALSE
    /\ tool_implementations =
           {"calculator", "append_note", "enable_private_mode", "quit_chat",
            "reset_chat"}
    /\ pc = "idle"
    /\ batch = <<>>
    /\ orphans = {}
    /\ outcome = "none"
    /\ reply = ""
    /\ planned = 0
    /\ nCompletions = 0
    /\ nBatches = 0
    /\ turns = 0
    /\ batchesUsed = 0
    /\ nextId = 1
    /\ impl_calls = [n \in CallNames \cup ControlTools |-> 0]
    /\ tool_log = 0
    /\ request_model = "none"
    /\ conversation = <<>>

(* ------------------------ agent: tool invoker -------------------------- *)

\* a task of the gather, before its coroutine has run; dispatched counts the
\* runs of _execute_tool_call on it, logged the calls of log_tool_call, and
\* before is private_chat at the moment the gather was created; overtaken
\* tells that a task listed after this one had finished when this one did
NewCall(id, type) ==
    [id |-> id, name |-> type[1], args |-> type[2], st |-> "pending",
     result |-> "", called |-> FALSE, priv |-> FALSE, exc |-> "none",
     logged |-> 0, dispatched |-> 0, before |-> FALSE, overtaken |-> FALSE]

\* json.loads(call.function.arguments) raises on text that is not JSON
JsonLoadsRaises(args) == args = "malformed"

\* mutant of ModeAfter: quit_chat asks for a reset as well
ModeAfterQuitResets(tname, flags) ==
    [exit_requested |->
         IF tname = "quit_chat" THEN TRUE ELSE flags.exit_requested,
     reset_requested |->
         IF tname \in {"quit_chat", "reset_chat"} THEN TRUE
         ELSE flags.reset_requested,
     model_name |->
         IF tname = "enable_high_brain_power" THEN HIGH_POWER_MODEL
         ELSE flags.model_name,
     private_chat |->
         IF tname = "enable_private_mode" THEN TRUE ELSE flags.private_chat]

\* mutant of ModeAfter: reset_chat restores the initial mode as well
ModeAfterResetClears(tname, flags) ==
    [exit_requested |->
         IF tname = "quit_chat" THEN TRUE ELSE flags.exit_requested,
     reset_requested |->
         IF tname = "reset_chat" THEN TRUE ELSE flags.reset_requested,
     model_name |->
         IF tname = "enable_high_brain_power" THEN HIGH_POWER_MODEL
         ELSE IF tname = "reset_chat" THEN MODEL_NAME
         ELSE flags.model_name,
     private_chat |->
         IF tname = "enable_private_mode" THEN TRUE
         ELSE IF tname = "reset_chat" THEN FALSE
         ELSE flags.private_chat]

\* mutant of ModeAfter: the flag is switched only for a registered tool
ModeAfterRegistered(tname, flags) ==
    IF tname \notin tool_implementations THEN flags
    ELSE [exit_requested |->
              IF tname = "quit_chat" THEN TRUE ELSE flags.exit_requested,
          reset_requested |->
              IF tname = "reset_chat" THEN TRUE ELSE flags.reset_requested,
          model_name |->
              IF tname = "enable_high_brain_power" THEN HIGH_POWER_MODEL
              ELSE flags.model_name,
          private_chat |->
              IF tname = "enable_private_mode" THEN TRUE
              ELSE flags.private_chat]

\* the mode switches of _execute_tool_call: the flags after a call named tname
ModeAfter(tname, flags) ==
    [exit_requested |->
         IF tname = "quit_chat" THEN TRUE ELSE flags.exit_requested,
     reset_requested |->
         IF tname = "reset_chat" THEN TRUE ELSE flags.reset_requested,
     model_name |->
         IF tname = "enable_high_brain_power" THEN HIGH_POWER_MODEL
         ELSE flags.model_name,
     private_chat |->
         IF tname = "enable_private_mode" THEN TRUE ELSE flags.private_chat]

Flags ==
    [exit_requested |-> exit_requested, reset_requested |-> reset_requested,
     model_name |-> model_name, private_chat |-> private_chat]

\* mutant of Blocked: private mode blocks every tool
BlockedAll(private, tname) == private

\* mutant of Blocked: the gate is never applied
BlockedNever(private, tname) == FALSE

\* the private-mode gate
Blocked(private, tname) == private /\ tname \in NoteWritingTools

\* func(**targs) / asyncio.to_thread(func, **targs) raise TypeError before the
\* implementation runs when targs is no mapping; BaseTool.invoke(targs) takes
\* any input
UnpackRaises(tname, args) ==
    args = "nonobject" /\ Convention(tname) # "tool"

\* log_tool_call: appends one entry, and swallows every error
LogToolCall(n) == IF log_writable THEN n + 1 ELSE n

\* mutant of Started: the lookup result is tested before the gate
StartedLookupFirst(c, private) ==
    LET s == [c EXCEPT !.priv = private, !.dispatched = @ + 1]
    IN IF JsonLoadsRaises(c.args)
       THEN [s EXCEPT !.st = "raised", !.exc = "parse"]
       ELSE IF c.name \notin tool_implementations
       THEN [s EXCEPT !.st = "returned", !.result = UnknownMsg,
                      !.logged = @ + 1]
       ELSE IF Blocked(private, c.name)
       THEN [s EXCEPT !.st = "returned", !.result = BlockedMsg,
                      !.logged = @ + 1]
       ELSE IF UnpackRaises(c.name, c.args)
       THEN [s EXCEPT !.st = "returned", !.result = ErrorMsg, !.exc = "impl",
                      !.logged = @ + 1]
       ELSE [s EXCEPT !.st = "running", !.called = TRUE]

\* The synchronous prefix of _execute_tool_call, up to its first await: the
\* call record after it. private is private_chat as the gate reads it.
Started(c, private) ==
    LET s == [c EXCEPT !.priv = private, !.dispatched = @ + 1]
    IN IF JsonLoadsRaises(c.args)
       THEN [s EXCEPT !.st = "raised", !.exc = "parse"]
       ELSE IF Blocked(private, c.name)
       THEN [s EXCEPT !.st = "returned", !.result = BlockedMsg,
                      !.logged = @ + 1]
       ELSE IF c.name \notin tool_implementations
       THEN [s EXCEPT !.st = "returned", !.result = UnknownMsg,
                      !.logged = @ + 1]
       ELSE IF UnpackRaises(c.name, c.args)
       THEN [s EXCEPT !.st = "returned", !.result = ErrorMsg, !.exc = "impl",
                      !.logged = @ + 1]
       ELSE [s EXCEPT !.st = "running", !.called = TRUE]

\* mutant of FirstPending: the tasks are run last to first
LastPending(b) ==
    CHOOSE i \in 1..Len(b) :
        b[i].st = "pending" /\ \A j \in (i + 1)..Len(b) : b[j].st # "pending"

\* the first task of the gather that has not run yet
FirstPending(b) ==
    CHOOSE i \in 1..Len(b) :
        b[i].st = "pending" /\ \A j \in 1..(i - 1) : b[j].st # "pending"

HasPending(b) == \E i \in 1..Len(b) : b[i].st = "pending"

\* The event loop runs the tasks of the gather in request order, each up to
\* its first await.
StartCall ==
    /\ pc = "executing"
    /\ HasPending(batch)
    /\ LET i == FirstPending(batch)
           c == batch[i]
           f == IF JsonLoadsRaises(c.args) THEN Flags
                ELSE ModeAfter(c.name, Flags)
           d == Started(c, f.private_chat)
       IN /\ batch' = [batch EXCEPT ![i] = d]
          /\ exit_requested' = f.exit_requested
          /\ reset_requested' = f.reset_requested
          /\ model_name' = f.model_name
          /\ private_chat' = f.private_chat
          /\ impl_calls' = IF d.called
                           THEN [impl_calls EXCEPT ![c.name] = @ + 1]
                           ELSE impl_calls
          /\ tool_log' = IF d.st = "returned" THEN LogToolCall(tool_log)
                         ELSE tool_log
    /\ UNCHANGED <<history, tool_implementations, pc, orphans, outcome, reply,
                   planned, turnCounters, nextId, log_writable, conversation,
                   request_model, regVars, chatVars>>

\* a task listed after task i has already finished
Overtaken(b, i) ==
    \E j \in (i + 1)..Len(b) : b[j].st \in {"returned", "raised"}

\* mutant of FinishCall: an implementation that raised is dispatched again
FinishCallRetried(i, raises) ==
    /\ pc = "executing"
    /\ ~HasPending(batch)
    /\ batch[i].st = "running"
    /\ batch' = [batch EXCEPT ![i] =
                    IF raises THEN [@ EXCEPT !.st = "pending"]
                    ELSE [@ EXCEPT !.st = "returned", !.result = OkMsg,
                                   !.logged = @ + 1]]
    /\ tool_log' = IF raises THEN tool_log ELSE LogToolCall(tool_log)
    /\ UNCHANGED <<history, flagVars, tool_implementations, pc, orphans,
                   outcome, reply, planned, turnCounters, nextId, impl_calls,
                   log_writable, conversation, request_model, regVars,
                   chatVars>>

\* A dispatched implementation returns or raises; either way the task ends
\* with a result (lines 178-198).
FinishCall(i, raises) ==
    /\ pc = "executing"
    /\ ~HasPending(batch)
    /\ batch[i].st = "running"
    /\ batch' = [batch EXCEPT ![i] =
                    [@ EXCEPT !.st = "returned",
                              !.result = IF raises THEN ErrorMsg ELSE OkMsg,
                              !.exc = IF raises THEN "impl" ELSE "none",
                              !.logged = @ + 1,
                              !.overtaken = Overtaken(batch, i)]]
    /\ tool_log' = LogToolCall(tool_log)
    /\ UNCHANGED <<history, flagVars, tool_implementations, pc, orphans,
                   outcome, reply, planned, turnCounters, nextId, impl_calls,
                   log_writable, conversation, request_model, regVars,
                   chatVars>>

(* --------------------------- agent: run -------------------------------- *)

CallsUsed == nextId - 1

IsDone(c) == c.st \in {"returned", "raised"}

\* mutant of GatherComplete: run resumes at the first finished task
GatherFirstCompleted(b) == \E i \in 1..Len(b) : IsDone(b[i])

\* asyncio.gather hands its results over when every task has finished
GatherComplete(b) == \A i \in 1..Len(b) : IsDone(b[i])

\* mutant of ToolMsgs: the results are taken as the tasks complete
ToolMsgsAsCompleted(b) ==
    LET done == SelectSeq(b, LAMBDA c : c.st = "returned")
        early == SelectSeq(done, LAMBDA c : ~c.overtaken)
        late == SelectSeq(done, LAMBDA c : c.overtaken)
    IN [i \in 1..Len(done) |->
           ToolMsg(IF i <= Len(early) THEN early[i] ELSE late[i - Len(early)])]

\* the tool messages of the finished tasks, in request order
ToolMsgs(b) ==
    LET done == SelectSeq(b, LAMBDA c : c.st = "returned")
    IN [i \in 1..Len(done) |-> ToolMsg(done[i])]

\* mutant of RequestModel: every request names the default model
RequestModelDefault == MODEL_NAME

\* model=self.model_name: a completion request names the model selected at
\* the moment it is issued
RequestModel == model_name

\* the plan of a completion service that answers every request of the turn
\* with "tool_calls"
AlwaysToolCalls == MaxBatches + 1

\* "tool_calls" responses the service of a finite plan still has to give
\* after the next one; their calls are left room below MaxCalls
Reserved == IF planned = AlwaysToolCalls THEN 0 ELSE planned - nBatches - 1

\* mutant of TurnAppend: the first element of the input is looked at
TurnAppendFirst(conv) ==
    IF conv # <<>> /\ conv[1].role = "user" THEN <<conv[1]>> ELSE <<>>

\* if conversation and conversation[-1]["role"] == "user": what run appends
\* to the history before its first completion request
TurnAppend(conv) ==
    IF conv # <<>> /\ conv[Len(conv)].role = "user" THEN <<conv[Len(conv)]>>
    ELSE <<>>

\* run(conversation): append the last element when it is a user message, then
\* request a completion
StartTurn(conv, plan) ==
    /\ pc = "idle"
    /\ turns < MaxTurns
    /\ \/ plan = AlwaysToolCalls
       \/ (plan <= MaxBatches - batchesUsed /\ plan <= MaxCalls - CallsUsed)
    /\ conversation' = conv
    /\ history' = Extend(history, TurnAppend(conv))
    /\ pc' = "awaiting"
    /\ planned' = plan
    /\ nCompletions' = 1
    /\ nBatches' = 0
    /\ turns' = turns + 1
    /\ batch' = <<>>
    /\ outcome' = "running"
    /\ reply' = ""
    /\ request_model' = RequestModel
    /\ UNCHANGED <<flagVars, tool_implementations, orphans, batchesUsed,
                   nextId, impl_calls, log_writable, tool_log,
                   regVars, chatVars>>

\* mutant of CompletionFails: the failed request is issued again
CompletionFailsRetried ==
    /\ pc = "awaiting"
    /\ pc' = "awaiting"
    /\ outcome' = "completion_error"
    /\ UNCHANGED <<history, flagVars, tool_implementations, batch, orphans,
                   reply, planned, turnCounters, nextId, impl_calls,
                   log_writable, conversation, request_model, tool_log,
                   regVars, chatVars>>

\* the completion request raises: the exception leaves run
CompletionFails ==
    /\ pc = "awaiting"
    /\ pc' = "idle"
    /\ outcome' = "completion_error"
    /\ UNCHANGED <<history, flagVars, tool_implementations, batch, orphans,
                   reply, planned, turnCounters, nextId, impl_calls,
                   log_writable, conversation, request_model, tool_log,
                   regVars, chatVars>>

\* finish_reason == "tool_calls": append the assistant message and create the
\* tasks of the gather
CompletionToolCalls(types) ==
    /\ pc = "awaiting"
    /\ nBatches < planned
    /\ batchesUsed < MaxBatches
    /\ Len(types) >= 1
    /\ Len(types) <= (MaxCalls - CallsUsed) - Reserved
    /\ LET b == [i \in 1..Len(types) |->
                    [NewCall(nextId + i - 1, types[i])
                        EXCEPT !.before = private_chat]]
       IN /\ history' = Append(history, AssistantCalls(b))
          /\ batch' = b
    /\ nextId' = nextId + Len(types)
    /\ pc' = "executing"
    /\ nBatches' = nBatches + 1
    /\ batchesUsed' = batchesUsed + 1
    /\ UNCHANGED <<flagVars, tool_implementations, orphans, outcome, reply,
                   planned, nCompletions, turns, impl_calls, log_writable,
                   conversation, request_model, tool_log, regVars, chatVars>>

\* every task returned: extend the history and request the next completion
GatherReturns ==
    /\ pc = "executing"
    /\ GatherComplete(batch)
    /\ \A i \in 1..Len(batch) : batch[i].st # "raised"
    /\ history' = Extend(history, ToolMsgs(batch))
    /\ pc' = "awaiting"
    /\ nCompletions' = nCompletions + 1
    /\ request_model' = RequestModel
    /\ UNCHANGED <<flagVars, tool_implementations, batch, orphans, outcome,
                   reply, planned, nBatches, turns, batchesUsed, nextId,
                   impl_calls, log_writable, conversation, tool_log, regVars,
                   chatVars>>

\* A task raised: gather (return_exceptions is not set) re-raises in run once
\* every task has run its first step; the tasks still running are not
\* cancelled and nothing is appended.
GatherRaises ==
    /\ pc = "executing"
    /\ ~HasPending(batch)
    /\ \E i \in 1..Len(batch) : batch[i].st = "raised"
    /\ pc' = "idle"
    /\ outcome' = "tool_error"
    /\ orphans' = orphans \cup
           {batch[i].id : i \in {j \in 1..Len(batch) : batch[j].st = "running"}}
    /\ UNCHANGED <<history, flagVars, tool_implementations, batch, reply,
                   planned, turnCounters, nextId, impl_calls, log_writable,
                   conversation, request_model, tool_log, regVars, chatVars>>

\* a task left behind by a raising gather finishes; its result goes nowhere
OrphanFinishes(id) ==
    /\ id \in orphans
    /\ orphans' = orphans \ {id}
    /\ tool_log' = LogToolCall(tool_log)
    /\ UNCHANGED <<history, flagVars, tool_implementations, pc, batch, outcome,
                   reply, planned, turnCounters, nextId, impl_calls,
                   log_writable, conversation, request_model, regVars,
                   chatVars>>

\* any other finish reason: strip the text, append it and return it
CompletionStop(raw) ==
    /\ pc = "awaiting"
    /\ nBatches = planned
    /\ history' = Append(history, AssistantText(Strip(raw)))
    /\ reply' = Strip(raw)
    /\ pc' = "idle"
    /\ outcome' = "returned"
    /\ UNCHANGED <<flagVars, tool_implementations, batch, orphans, planned,
                   turnCounters, nextId, impl_calls, log_writable,
                   conversation, request_model, tool_log, regVars, chatVars>>

\* voice_chat passes one user message to every call of run (main.py:194)
TurnInputs == {<<UserMsg>>}

BatchShapes == UNION {[1..k -> CallTypes] : k \in 1..MaxCalls}

\* the registry build is over before the session starts
RegIdle ==
    /\ reg_pc = "done"
    /\ tools_config = EmptyConfig
    /\ settings = DefaultSettings
    /\ final_implementations = NoImplementations
    /\ final_schemas = <<>>
    /\ ret_implementations = NoImplementations
    /\ ret_schemas = <<>>

\* voice_chat has constructed the agent and is at the top of its loop
ChatStarted ==
    /\ ctl = "loop"
    /\ handled = 0
    /\ summaries = <<>>
    /\ stop_chime = FALSE
    /\ music_task = "none"
    /\ position = 0

Init ==
    /\ AgentConstructed
    /\ log_writable \in BOOLEAN
    /\ RegIdle
    /\ ChatStarted

Next ==
    \/ \E r \in TurnInputs, n \in 0..MaxBatches : StartTurn(r, n)
    \/ CompletionFails
    \/ \E types \in BatchShapes : CompletionToolCalls(types)
    \/ \E raw \in RawReplies : CompletionStop(raw)
    \/ StartCall
    \/ \E i \in 1..Len(batch), raises \in BOOLEAN : FinishCall(i, raises)
    \/ GatherReturns
    \/ GatherRaises
    \/ \E id \in orphans : OrphanFinishes(id)

Spec == Init /\ [][Next]_vars

\* run on the inputs any caller may pass: an empty list, a list of one user
\* message, a list ending with an assistant message, and a list ending with
\* a user message that is not its first element
OtherUserMsg == Msg("user", "follow-up", 0, <<>>)

ConversationInputs ==
    {<<>>, <<UserMsg>>, <<UserMsg, AssistantText("answer")>>,
     <<AssistantText("answer"), OtherUserMsg>>}

\* the calls the completion service requests of such a caller
TurnCallTypes == {<<"calculator", "object">>, <<"append_note", "malformed">>}

TurnBatchShapes == UNION {[1..k -> TurnCallTypes] : k \in 1..MaxCalls}

TurnNext ==
    \/ \E conv \in ConversationInputs, n \in 0..MaxBatches :
           StartTurn(conv, n)
    \/ CompletionFails
    \/ \E types \in TurnBatchShapes : CompletionToolCalls(types)
    \/ \E raw \in RawReplies : CompletionStop(raw)
    \/ StartCall
    \/ \E i \in 1..Len(batch), raises \in BOOLEAN : FinishCall(i, raises)
    \/ GatherReturns
    \/ GatherRaises
    \/ \E id \in orphans : OrphanFinishes(id)

SpecTurn == Init /\ [][TurnNext]_vars

\* Turns whose calls meet the private-mode gate and the lookup: the switch to
\* private mode, a note-writing tool that is registered (append_note), one
\* that is not (append_core_memory), a name that is neither registered nor
\* on the block-list, and a note-writing call and a switch whose arguments
\* are not JSON
GateCallTypes ==
    {<<"enable_private_mode", "object">>, <<"append_note", "object">>,
     <<"append_core_memory", "object">>, <<"ghost", "object">>,
     <<"append_note", "malformed">>, <<"enable_private_mode", "malformed">>}

GateBatchShapes == UNION {[1..k -> GateCallTypes] : k \in 1..MaxCalls}

GateNext ==
    \/ \E conv \in TurnInputs, n \in 0..MaxBatches : StartTurn(conv, n)
    \/ CompletionFails
    \/ \E types \in GateBatchShapes : CompletionToolCalls(types)
    \/ \E raw \in RawReplies : CompletionStop(raw)
    \/ StartCall
    \/ \E i \in 1..Len(batch), raises \in BOOLEAN : FinishCall(i, raises)
    \/ GatherReturns
    \/ GatherRaises
    \/ \E id \in orphans : OrphanFinishes(id)

SpecGate == Init /\ [][GateNext]_vars

\* Turns of a completion service that answers every request, with a finite
\* number of "tool_calls" responses before its "stop" or with "tool_calls"
\* for ever. The event loop runs every task that is ready, every
\* implementation returns or raises, and the service answers: weak fairness
\* on those steps. Nothing obliges a caller to start a turn.
LiveNext ==
    \/ \E n \in 0..AlwaysToolCalls : StartTurn(<<UserMsg>>, n)
    \/ \E types \in TurnBatchShapes : CompletionToolCalls(types)
    \/ \E raw \in RawReplies : CompletionStop(raw)
    \/ StartCall
    \/ \E i \in 1..Len(batch), raises \in BOOLEAN : FinishCall(i, raises)
    \/ GatherReturns
    \/ GatherRaises
    \/ \E id \in orphans : OrphanFinishes(id)

ServiceAnswers ==
    \/ \E types \in TurnBatchShapes : CompletionToolCalls(types)
    \/ \E raw \in RawReplies : CompletionStop(raw)

ToolCallsTerminate ==
    \/ \E i \in 1..Len(batch), raises \in BOOLEAN : FinishCall(i, raises)
    \/ \E id \in orphans : OrphanFinishes(id)

SpecLive ==
    /\ Init
    /\ [][LiveNext]_vars
    /\ WF_vars(ServiceAnswers)
    /\ WF_vars(StartCall)
    /\ WF_vars(ToolCallsTerminate)
    /\ WF_vars(GatherReturns)
    /\ WF_vars(GatherRaises)

\* the registry build alone, before any session
InitReg ==
    /\ AgentConstructed
    /\ log_writable = TRUE
    /\ RegInit
    /\ ChatStarted

SpecReg == InitReg /\ [][RegNext]_vars

\* the registry build from a configuration file
InitCfg ==
    /\ AgentConstructed
    /\ log_writable = TRUE
    /\ ChatStarted
    /\ tools_config \in ConfigFiles
    /\ settings = GetSettings(tools_config)
    /\ reg_pc = "core"
    /\ final_implementations = NoImplementations
    /\ final_schemas = <<>>
    /\ ret_implementations = NoImplementations
    /\ ret_schemas = <<>>

CfgNext ==
    \/ LoadCoreTools(GetToolNamesFromSection(tools_config, "core_tools"))
    \/ LoadCommunityTools(
           CommunityInstantiated(
               GetEnabledToolsFromSection(tools_config, "community_tools")))
    \/ LoadMcpTools(
           McpOffered(GetEnabledToolsFromSection(tools_config, "mcp_servers")))
    \/ SkipMcpTools
    \/ LoadObsidianTools(
           GetToolNamesFromSection(tools_config, "obsidian_tools"),
           GetToolNamesFromSection(tools_config, "memory_tools"),
           GetToolNamesFromSection(tools_config, "fallback_tools"), FALSE)
    \/ SkipObsidianTools
    \/ ReturnTools

SpecCfg == InitCfg /\ [][CfgNext]_vars

\* The de-duplication and cleanup alone, on candidate lists of every shape
\* its checks tell apart: not a dict ("nondict"), a dict without "function"
\* with or without a name ("raw", "raw_noname"), a dict whose "function" is a
\* dict with or without a name ("wrapped", "wrapped_noname"), and a dict whose
\* "function" is no container ("wrapped_nonrecord"). Every candidate comes
\* with the implementation its source registered under the name.
CandidateShapes ==
    {"nondict", "raw", "raw_noname", "wrapped", "wrapped_noname",
     "wrapped_nonrecord"}

CandidateSeqs(n) ==
    UNION {[1..k -> ExtNames \X CandidateShapes] : k \in 0..n}

CandidateSchemas(cs) ==
    [i \in DOMAIN cs |-> Schema(cs[i][1], "community", i, cs[i][2])]

RECURSIVE CandidateImpls(_, _)
CandidateImpls(cs, k) ==
    IF k = 0 THEN NoImplementations
    ELSE [CandidateImpls(cs, k - 1) EXCEPT ![cs[k][1]] = Impl("community", k)]

InitNorm ==
    /\ AgentConstructed
    /\ log_writable = TRUE
    /\ ChatStarted
    /\ tools_config = EmptyConfig
    /\ settings = DefaultSettings
    /\ reg_pc = "dedup"
    /\ \E cs \in CandidateSeqs(MaxExtTools) :
           /\ final_schemas = CandidateSchemas(cs)
           /\ final_implementations = CandidateImpls(cs, Len(cs))
    /\ ret_implementations = NoImplementations
    /\ ret_schemas = <<>>

NormNext ==
    \/ ReturnTools
    \/ NormaliseFails

SpecNorm == InitNorm /\ [][NormNext]_vars

(* ----------------------- session: voice_chat -------------------------- *)

\* the (name, arguments) pairs the completion service requests in a session
\* of voice_chat: the four control tools, one other tool, and three calls
\* whose arguments are not JSON
ChatCallTypes ==
    {<<n, "object">> : n \in ControlTools}
        \cup {<<"calculator", "object">>,
              <<"quit_chat", "malformed">>,
              <<"enable_private_mode", "malformed">>,
              <<"enable_high_brain_power", "malformed">>}

ChatBatchShapes == UNION {[1..k -> ChatCallTypes] : k \in 1..MaxCalls}

\* mutant of SaveUnlessPrivate: the summary is saved whatever the mode
SaveAlways(private, record, saved) == Append(saved, record)

\* if not agent.private_chat: save_session_summary(agent.history)
SaveUnlessPrivate(private, record, saved) ==
    IF private THEN saved ELSE Append(saved, record)

\* The loop body up to the call of run: an utterance was recorded and
\* transcribed, and run is called with it as one user message. (An empty
\* recording, a transcription error or an empty text restart the loop and
\* change nothing.)
Listen(plan) ==
    /\ ctl = "loop"
    /\ handled = turns
    /\ StartTurn(<<UserMsg>>, plan)

\* The idle check at the top of the loop finds the timeout passed: the
\* summary is saved unless the session is private, and voice_chat returns.
IdleTimeout ==
    /\ ctl = "loop"
    /\ pc = "idle"
    /\ handled = turns
    /\ summaries' = SaveUnlessPrivate(private_chat, history, summaries)
    /\ ctl' = "idle_exit"
    /\ UNCHANGED <<agentVars, regVars, handled, musicVars>>

\* mutant of ExitObserved: the exit flag is not looked at
ExitIgnored(flag) == FALSE

\* if agent.exit_requested
ExitObserved(flag) == flag

\* mutant of AfterTurn: the reset flag is looked at before the exit flag
AfterTurnResetFirst ==
    /\ ctl = "loop"
    /\ pc = "idle"
    /\ handled < turns
    /\ outcome = "returned"
    /\ handled' = turns
    /\ IF reset_requested
       THEN /\ summaries' =
                   SaveUnlessPrivate(private_chat, history, summaries)
            /\ ctl' = "reset_error"
       ELSE IF ExitObserved(exit_requested)
       THEN /\ summaries' =
                   SaveUnlessPrivate(private_chat, history, summaries)
            /\ ctl' = "exit"
       ELSE UNCHANGED <<summaries, ctl>>
    /\ UNCHANGED <<agentVars, regVars, musicVars>>

\* run returned: the reply is spoken, then the exit and the reset flag are
\* looked at in this order. On exit the summary is saved unless the session
\* is private, and voice_chat returns. On reset the summary is saved likewise
\* and ButlerAgent() is called without its two required arguments: the
\* TypeError leaves voice_chat, and the agent stays as it was.
AfterTurn ==
    /\ ctl = "loop"
    /\ pc = "idle"
    /\ handled < turns
    /\ outcome = "returned"
    /\ handled' = turns
    /\ IF ExitObserved(exit_requested)
       THEN /\ summaries' =
                   SaveUnlessPrivate(private_chat, history, summaries)
            /\ ctl' = "exit"
       ELSE IF reset_requested
       THEN /\ summaries' =
                   SaveUnlessPrivate(private_chat, history, summaries)
            /\ ctl' = "reset_error"
       ELSE UNCHANGED <<summaries, ctl>>
    /\ UNCHANGED <<agentVars, regVars, musicVars>>

\* run raised: nothing in voice_chat catches the exception, which ends the
\* program; asyncio.run cancels the tasks a raising gather left behind
RunRaises ==
    /\ ctl = "loop"
    /\ pc = "idle"
    /\ handled < turns
    /\ outcome \in {"completion_error", "tool_error"}
    /\ handled' = turns
    /\ ctl' = "run_error"
    /\ orphans' = {}
    /\ UNCHANGED <<history, flagVars, tool_implementations, pc, batch, outcome,
                   reply, planned, turnCounters, nextId, impl_calls,
                   log_writable, conversation, request_model, tool_log,
                   regVars, summaries, musicVars>>

ChatNext ==
    \/ \E n \in 0..MaxBatches : Listen(n)
    \/ IdleTimeout
    \/ AfterTurn
    \/ RunRaises
    \/ CompletionFails
    \/ \E types \in ChatBatchShapes : CompletionToolCalls(types)
    \/ \E raw \in RawReplies : CompletionStop(raw)
    \/ StartCall
    \/ \E i \in 1..Len(batch), raises \in BOOLEAN : FinishCall(i, raises)
    \/ GatherReturns
    \/ GatherRaises

\* a session of voice_chat
SpecChat == Init /\ [][ChatNext]_vars

(* ------------------ session: the waiting music ------------------------ *)

\* chunks of a quarter of a second in the waiting music, played in a loop
MusicChunks == 2

\* what the speech service streams for a reply: audio (some chunk is not
\* empty), nothing but empty chunks or no chunk at all, or an error of the
\* request
SpeechYields == {"audio", "silence", "error"}

\* the calls the completion service requests in these sessions
MusicCallTypes ==
    {<<"quit_chat", "object">>, <<"reset_chat", "object">>,
     <<"calculator", "object">>, <<"append_note", "malformed">>}

MusicBatchShapes == UNION {[1..k -> MusicCallTypes] : k \in 1..MaxCalls}

\* replies with text and replies that strip to the empty string
MusicReplies == {" answer ", "   "}

\* An utterance was recorded and transcribed: the stop event and the task of
\* play_waiting_music are created (main.py:186-188).
StartMusic ==
    /\ ctl = "loop"
    /\ pc = "idle"
    /\ handled = turns
    /\ turns < MaxTurns
    /\ ctl' = "thinking"
    /\ stop_chime' = FALSE
    /\ music_task' = "playing"
    /\ position' = 0
    /\ UNCHANGED <<agentVars, regVars, handled, summaries>>

\* reply = await agent.run([...]) is entered (main.py:194)
CallRun(plan) ==
    /\ ctl = "thinking"
    /\ handled = turns
    /\ StartTurn(<<UserMsg>>, plan)

\* while not stop_event.is_set(): one more chunk is written, and the task
\* yields to the event loop
MusicPlays ==
    /\ music_task = "playing"
    /\ ~stop_chime
    /\ position' = (position + 1) % MusicChunks
    /\ UNCHANGED <<agentVars, regVars, ctl, handled, summaries, stop_chime,
                   music_task>>

\* the loop finds the stop event set and play_waiting_music returns
MusicStops ==
    /\ music_task = "playing"
    /\ stop_chime
    /\ music_task' = "done"
    /\ UNCHANGED <<agentVars, regVars, ctl, handled, summaries, stop_chime,
                   position>>

\* run returned a reply that is not empty: speak_custom sets the stop event
\* at the first chunk that is not empty, and only there; an error of the
\* speech request leaves voice_chat, and asyncio.run cancels the music task
SpeakReply(yield) ==
    /\ ctl = "thinking"
    /\ pc = "idle"
    /\ handled < turns
    /\ outcome = "returned"
    /\ Strip(reply) # ""
    /\ stop_chime' = (stop_chime \/ yield = "audio")
    /\ ctl' = IF yield = "error" THEN "speak_error" ELSE "await_music"
    /\ music_task' = IF yield = "error" THEN "cancelled" ELSE music_task
    /\ UNCHANGED <<agentVars, regVars, handled, summaries, position>>

\* run returned a reply that strips to nothing: stop_chime.set()
EmptyReply ==
    /\ ctl = "thinking"
    /\ pc = "idle"
    /\ handled < turns
    /\ outcome = "returned"
    /\ Strip(reply) = ""
    /\ stop_chime' = TRUE
    /\ ctl' = "await_music"
    /\ UNCHANGED <<agentVars, regVars, handled, summaries, music_task,
                   position>>

\* await music_task completes, and the exit and the reset flag are looked at
\* (main.py:203-219)
AwaitMusic ==
    /\ ctl = "await_music"
    /\ music_task = "done"
    /\ handled' = turns
    /\ IF ExitObserved(exit_requested)
       THEN /\ summaries' =
                   SaveUnlessPrivate(private_chat, history, summaries)
            /\ ctl' = "exit"
       ELSE IF reset_requested
       THEN /\ summaries' =
                   SaveUnlessPrivate(private_chat, history, summaries)
            /\ ctl' = "reset_error"
       ELSE /\ ctl' = "loop"
            /\ UNCHANGED summaries
    /\ UNCHANGED <<agentVars, regVars, musicVars>>

\* run raised: the exception leaves voice_chat at line 194 with the stop event
\* as it is, and asyncio.run cancels the music task and the tasks a raising
\* gather left behind
TurnRaises ==
    /\ ctl = "thinking"
    /\ pc = "idle"
    /\ handled < turns
    /\ outcome \in {"completion_error", "tool_error"}
    /\ handled' = turns
    /\ ctl' = "run_error"
    /\ music_task' = "cancelled"
    /\ orphans' = {}
    /\ UNCHANGED <<history, flagVars, tool_implementations, pc, batch, outcome,
                   reply, planned, turnCounters, nextId, impl_calls,
                   log_writable, conversation, request_model, tool_log,
                   regVars, summaries, stop_chime, position>>

MusicServiceAnswers ==
    \/ \E types \in MusicBatchShapes : CompletionToolCalls(types)
    \/ \E raw \in MusicReplies : CompletionStop(raw)

SpeechServiceAnswers == \E yield \in SpeechYields : SpeakReply(yield)

MusicNext ==
    \/ StartMusic
    \/ \E n \in 0..MaxBatches : CallRun(n)
    \/ IdleTimeout
    \/ MusicPlays
    \/ MusicStops
    \/ SpeechServiceAnswers
    \/ EmptyReply
    \/ AwaitMusic
    \/ TurnRaises
    \/ CompletionFails
    \/ MusicServiceAnswers
    \/ StartCall
    \/ \E i \in 1..Len(batch), raises \in BOOLEAN : FinishCall(i, raises)
    \/ GatherReturns
    \/ GatherRaises

\* Sessions of voice_chat with the waiting music. The event loop runs every
\* task that is ready, the services answer every request, every
\* implementation returns or raises, and an exception propagates: weak
\* fairness on those steps. Nothing obliges the user to speak, and the idle
\* timeout need not pass.
SpecMusic ==
    /\ Init
    /\ [][MusicNext]_vars
    /\ WF_vars(\E n \in 0..MaxBatches : CallRun(n))
    /\ WF_vars(MusicPlays)
    /\ WF_vars(MusicStops)
    /\ WF_vars(SpeechServiceAnswers)
    /\ WF_vars(EmptyReply)
    /\ WF_vars(AwaitMusic)
    /\ WF_vars(TurnRaises)
    /\ WF_vars(MusicServiceAnswers)
    /\ WF_vars(StartCall)
    /\ WF_vars(\E i \in 1..Len(batch), raises \in BOOLEAN :
                   FinishCall(i, raises))
    /\ WF_vars(GatherReturns)
    /\ WF_vars(GatherRaises)

(* ------------------------ agent: claim helpers ------------------------- *)

ToolMsgIndexes(id) ==
    {k \in 1..Len(history) :
        history[k].role = "tool" /\ history[k].tool_call_id = id}

Appended(id) == ToolMsgIndexes(id) # {}

\* index of the most recent assistant message before position k, 0 if none
PrecedingAssistant(k) ==
    LET js == {j \in 1..(k - 1) : history[j].role = "assistant"}
    IN IF js = {} THEN 0 ELSE CHOOSE j \in js : \A m \in js : m <= j

\* the gather of the current batch is over (run has moved past it)
BatchOver == pc # "executing" /\ Len(batch) > 0

TurnEnded == pc = "idle" /\ outcome # "none"

(* ------------------------------ claims --------------------------------- *)

\* C1: every tool-role message of the conversation record carries a
\* tool_call_id that is exactly one of the calls requested by the most recent
\* assistant message before it, and only tool messages lie between the two.
C1_ToolCallIdIntegrity ==
    \A k \in 1..Len(history) :
        history[k].role = "tool" =>
            LET j == PrecedingAssistant(k)
            IN /\ j > 0
               /\ Cardinality({i \in 1..Len(history[j].tool_calls) :
                      history[j].tool_calls[i] = history[k].tool_call_id}) = 1
               /\ \A m \in (j + 1)..k : history[m].role = "tool"

\* C1 witness: a turn that returned after a batch of two calls, both results
\* in the record
C1_Witness ==
    /\ TurnEnded /\ outcome = "returned"
    /\ Len(batch) = 2
    /\ \A i \in 1..Len(batch) : Appended(batch[i].id)

\* C2 (as claimed): once the gather of a batch is over, every call of the
\* batch has exactly one tool result record in the conversation record,
\* whatever made the call fail.
C2_OneResultPerCall ==
    BatchOver =>
        \A i \in 1..Len(batch) : Cardinality(ToolMsgIndexes(batch[i].id)) = 1

\* C3: while a completion request is outstanding every call of the batch has
\* returned and its result is in the record, and no result of a batch is in
\* the record before every call of the batch has finished.
C3_FanInBeforeCompletion ==
    /\ pc = "awaiting" =>
           \A i \in 1..Len(batch) :
               batch[i].st = "returned" /\ Appended(batch[i].id)
    /\ (\E i \in 1..Len(batch) : Appended(batch[i].id)) =>
           \A i \in 1..Len(batch) : IsDone(batch[i])

\* C3 witness: the completion request that follows a batch of two calls
C3_Witness ==
    /\ pc = "awaiting" /\ nCompletions = 2
    /\ Len(batch) = 2
    /\ \A i \in 1..Len(batch) : batch[i].called

\* C4 (as claimed): a turn whose completion requests all succeed, with the
\* service giving planned "tool_calls" responses and then "stop", ends by
\* returning after planned batches and planned + 1 requests, the final text
\* being the last message of the record and the value returned.
C4_TurnTermination ==
    (TurnEnded /\ outcome # "completion_error") =>
        /\ outcome = "returned"
        /\ nBatches = planned
        /\ nCompletions = planned + 1
        /\ history[Len(history)] = AssistantText(reply)

\* C5 (as claimed): when a call of a batch fails with an exception, the
\* failing call is recorded as an error result and every sibling that ran to
\* completion has its result in the record.
C5_FanOutIsolation ==
    BatchOver =>
        \A i \in 1..Len(batch) :
            batch[i].exc # "none" =>
                /\ \E k \in ToolMsgIndexes(batch[i].id) :
                       history[k].content = ErrorMsg
                /\ \A j \in 1..Len(batch) :
                       (j # i /\ batch[j].st = "returned") =>
                           Appended(batch[j].id)

\* C6 (as claimed): the invoker never raises, and a call whose arguments do
\* not parse into a mapping ends at once with an error result carrying its
\* id, without any dispatch.
C6_InvokerNeverRaises ==
    \A i \in 1..Len(batch) :
        /\ batch[i].st # "raised"
        /\ (batch[i].args # "object" /\ batch[i].st # "pending") =>
               /\ batch[i].st = "returned"
               /\ batch[i].result = ErrorMsg
               /\ ~batch[i].called

\* C7 (as claimed): a turn ends abnormally only when a completion request
\* failed; no tool failure makes run raise.
C7_OnlyCompletionFailuresRaise ==
    (TurnEnded /\ outcome # "returned") => outcome = "completion_error"

\* C8 (as claimed): every invocation of a note-writing tool made while
\* private_chat is true results in the fixed block message, and the
\* implementation is not called.
C8_PrivateModeGate ==
    \A i \in 1..Len(batch) :
        (batch[i].name \in NoteWritingTools /\ batch[i].priv) =>
            /\ batch[i].st = "returned"
            /\ batch[i].result = BlockedMsg
            /\ ~batch[i].called

\* C8 (amended): an invocation of a note-writing tool made while private_chat
\* is true never calls the implementation, and when its arguments parse as
\* JSON it results in the fixed block message.
C8_PrivateModeGateParsed ==
    \A i \in 1..Len(batch) :
        (batch[i].name \in NoteWritingTools /\ batch[i].priv) =>
            /\ ~batch[i].called
            /\ ~JsonLoadsRaises(batch[i].args) =>
                   batch[i].st = "returned" /\ batch[i].result = BlockedMsg

\* C8 witness: a note-writing call blocked in private mode
C8_Witness ==
    \E i \in 1..Len(batch) :
        /\ batch[i].name \in NoteWritingTools
        /\ batch[i].priv
        /\ batch[i].result = BlockedMsg
        /\ impl_calls[batch[i].name] = 0

IsPrefix(s, t) == Len(s) <= Len(t) /\ SubSeq(t, 1, Len(s)) = s

\* C12: the conversation record changes only by appending at its end: at
\* every step the record before is a prefix of the record after.
C12_AppendOnly == [][IsPrefix(history, history')]_vars

\* C12 witness: a record that grew over two turns, the first with a batch
C12_Witness ==
    /\ turns = 2 /\ TurnEnded /\ outcome = "returned"
    /\ \E k \in 1..Len(history) : history[k].role = "tool"
    /\ Cardinality({k \in 1..Len(history) : history[k].role = "user"}) = 2

\* C20: a failed completion request ends the turn with the exception: run is
\* left at once, and until the next turn starts no completion request is
\* issued, no tool call is created or dispatched and nothing is appended, so
\* that the record does not end with an assistant message of that turn.
C20_CompletionFailurePropagates ==
    /\ [](outcome = "completion_error" =>
             /\ pc = "idle"
             /\ nCompletions = nBatches + 1
             /\ history[Len(history)].role \in {"user", "tool"})
    /\ [][(outcome = "completion_error" /\ turns' = turns) =>
             /\ history' = history
             /\ nCompletions' = nCompletions
             /\ nBatches' = nBatches
             /\ nextId' = nextId
             /\ impl_calls' = impl_calls
             /\ batch' = batch
             /\ outcome' = outcome]_vars

\* C20 witness: the completion request after a dispatched batch failed
C20_Witness ==
    /\ outcome = "completion_error"
    /\ nCompletions = 2
    /\ \E i \in 1..Len(batch) : batch[i].called

(* ----------------------- session: claim helpers ------------------------ *)

\* the mode flag of control tool tname is set
FlagSet(tname) ==
    CASE tname = "quit_chat" -> exit_requested
      [] tname = "reset_chat" -> reset_requested
      [] tname = "enable_high_brain_power" -> model_name = HIGH_POWER_MODEL
      [] tname = "enable_private_mode" -> private_chat

\* positions of the assistant messages that request a call of tname
Requests(tname) ==
    {k \in 1..Len(history) :
        /\ history[k].role = "assistant"
        /\ tname \in Range(history[k].function_names)}

\* position of the user message of the latest turn
LastUser ==
    CHOOSE k \in 1..Len(history) :
        /\ history[k].role = "user"
        /\ \A m \in (k + 1)..Len(history) : history[m].role # "user"

\* tname was requested in the latest turn
RequestedInTurn(tname) ==
    turns > 0 /\ \E k \in Requests(tname) : k > LastUser

SessionEnds == {"exit", "reset_error", "idle_exit"}

\* C13 (as claimed): every call naming a control tool that the invoker has
\* taken up has its mode flag set, however the call ends.
C13_ControlFlagsAlways ==
    \A i \in 1..Len(batch) :
        (batch[i].name \in ControlTools /\ batch[i].st # "pending") =>
            FlagSet(batch[i].name)

\* C13 (amended): every call naming a control tool whose arguments parse as
\* JSON has its mode flag set once the invoker has taken it up, whether the
\* tool is registered or not and whether its implementation returns or
\* raises.
C13_ControlFlagsParsed ==
    \A i \in 1..Len(batch) :
        (/\ batch[i].name \in ControlTools
         /\ batch[i].st # "pending"
         /\ ~JsonLoadsRaises(batch[i].args)) =>
            FlagSet(batch[i].name)

\* C13 witness: a batch in which an unregistered control tool got the
\* unknown-tool result and the implementation of another one raised, both
\* flags set
C13_Witness ==
    /\ \E i \in 1..Len(batch) :
           /\ batch[i].name = "enable_high_brain_power"
           /\ batch[i].result = UnknownMsg
    /\ \E i \in 1..Len(batch) :
           /\ batch[i].name = "quit_chat"
           /\ batch[i].called /\ batch[i].exc = "impl"
    /\ model_name = HIGH_POWER_MODEL
    /\ exit_requested

C15_SummaryOnEnd ==
    /\ Len(summaries) <= 1
    /\ summaries # <<>> => (ctl \in SessionEnds /\ summaries[1] = history)
    /\ (ctl \in SessionEnds /\ ~private_chat) => Len(summaries) = 1
    /\ Requests("enable_private_mode") # {} => summaries = <<>>

\* C15 witness: a session that went private in its first turn and ended by
\* exit in its second, nothing saved
C15_Witness ==
    /\ ctl = "exit"
    /\ turns = 2
    /\ private_chat
    /\ Requests("enable_private_mode") # {}
    /\ \E k \in Requests("enable_private_mode") : k < LastUser
    /\ summaries = <<>>

\* C16 (as claimed): once voice_chat has dealt with a returned turn that did
\* not ask for exit, the session goes on (or ends by idle timeout) with an
\* agent whose reset flag is clear; after reset_chat that agent is a new one.
C16_ResetStartsFresh ==
    (/\ pc = "idle" /\ outcome = "returned"
     /\ handled = turns /\ turns > 0
     /\ ~exit_requested) =>
        /\ ctl \in {"loop", "idle_exit"}
        /\ ~reset_requested

(* ----------------------- registry: claim helpers ----------------------- *)

\* positions of the candidate schemas named n, in merge order
Candidates(n) == {i \in DOMAIN final_schemas : final_schemas[i].name = n}

\* sources that supplied a schema named n
Suppliers(n) == {final_schemas[i].src : i \in Candidates(n)}

FirstCandidate(n) == CHOOSE i \in Candidates(n) : \A j \in Candidates(n) : i <= j

Returned(n) == {i \in DOMAIN ret_schemas : ret_schemas[i].name = n}

\* C9 (as claimed): when two sources supplied a tool named n, the returned
\* registry holds exactly one schema and one implementation for n, and the
\* implementation is the one of the source merged first.
C9_FirstSourceWins ==
    reg_pc = "done" =>
        \A n \in RegNames :
            Cardinality(Suppliers(n)) >= 2 =>
                /\ Cardinality(Returned(n)) = 1
                /\ ret_implementations[n] # NoImpl
                /\ ret_implementations[n].src =
                       final_schemas[FirstCandidate(n)].src

\* the returned registry holds tool n: its schema and its implementation
Present(n) ==
    /\ \E i \in DOMAIN ret_schemas : ret_schemas[i].name = n
    /\ ret_implementations[n] # NoImpl

\* what the two external loaders are given
CommunityGiven == GetEnabledToolsFromSection(tools_config, "community_tools")
ServersGiven == GetEnabledToolsFromSection(tools_config, "mcp_servers")

\* a community tool that loads when it is tried
CommunityHealthy(t) == t.loads = "ok"

\* a remote server that answers, with a tool its tools list does not disable
ServerHealthy(sv) == sv.reachable /\ sv.listing # "disabled"

\* the enabled set of the category a returned schema came from
EnabledSet(src) ==
    CASE src = "core" -> GetToolNamesFromSection(tools_config, "core_tools")
      [] src = "obsidian" ->
             GetToolNamesFromSection(tools_config, "obsidian_tools")
      [] src = "memory" ->
             GetToolNamesFromSection(tools_config, "memory_tools")
      [] src = "fallback" ->
             GetToolNamesFromSection(tools_config, "fallback_tools")
      [] src = "community" ->
             {CommunityGiven[i].name : i \in DOMAIN CommunityGiven}
      [] src = "mcp" ->
             {ServersGiven[i].tool :
                 i \in {j \in DOMAIN ServersGiven :
                            ServersGiven[j].listing = "enabled"}}
      [] OTHER -> RegNames

\* C11 (as claimed): when the build has returned, the failure of a community
\* tool or of a remote server has cost no other source its tools: every
\* enabled core tool, every community tool that has its credentials and
\* loads, and the tool of every remote server that has its credentials and
\* answers are in the returned registry.
C11_SourceFailureIsolated ==
    reg_pc = "done" =>
        /\ \A n \in GetToolNamesFromSection(tools_config, "core_tools") :
               Present(n)
        /\ \A i \in DOMAIN CommunityGiven :
               (CredentialsPresent(CommunityGiven[i])
                    /\ CommunityHealthy(CommunityGiven[i])) =>
                   Present(CommunityGiven[i].name)
        /\ settings.use_mcp_tools =>
               \A i \in DOMAIN ServersGiven :
                   (CredentialsPresent(ServersGiven[i])
                        /\ ServerHealthy(ServersGiven[i])) =>
                       Present(ServersGiven[i].tool)

\* C17 (as claimed): every schema of the returned registry names a tool of
\* the enabled set of the category that contributed it.
C17_EnabledSetFilter ==
    reg_pc = "done" =>
        \A i \in DOMAIN ret_schemas :
            ret_schemas[i].name \in EnabledSet(ret_schemas[i].src)

\* C18: when the build has returned (it always returns: no step of it
\* raises), a community tool or a remote server given to the loaders without
\* its credentials has contributed nothing, and the others are loaded as if
\* it were not there: every community tool that has its credentials and
\* loads is in the registry, and so is, when the client call succeeds, the
\* tool of every server that has its credentials and does not disable it.
C18_MissingCredentialSkipsOne ==
    reg_pc = "done" =>
        /\ \A i \in DOMAIN CommunityGiven :
               /\ ~CommunityGiven[i].env_ok =>
                      /\ ~Present(CommunityGiven[i].name)
                      /\ final_implementations[CommunityGiven[i].name]
                             = NoImpl
               /\ (CommunityGiven[i].env_ok
                       /\ CommunityHealthy(CommunityGiven[i])) =>
                      Present(CommunityGiven[i].name)
        /\ \A i \in DOMAIN ServersGiven :
               /\ ~ServersGiven[i].env_ok =>
                      /\ ~Present(ServersGiven[i].tool)
                      /\ final_implementations[ServersGiven[i].tool] = NoImpl
               /\ (/\ settings.use_mcp_tools
                   /\ ServersGiven[i].env_ok
                   /\ ServersGiven[i].listing # "disabled"
                   /\ \A j \in DOMAIN ServersGiven :
                          ServersGiven[j].env_ok =>
                              ServersGiven[j].reachable) =>
                      Present(ServersGiven[i].tool)

\* C18 witness: a build that returned with a community tool left out for its
\* missing credentials next to a remote server whose tool was loaded
C18_Witness ==
    /\ reg_pc = "done"
    /\ \E i \in DOMAIN CommunityGiven :
           ~CommunityGiven[i].env_ok /\ ~Present(CommunityGiven[i].name)
    /\ \E i \in DOMAIN ServersGiven : Present(ServersGiven[i].tool)

\* C19 (as claimed): when the build has returned, every tool the file
\* configures correctly and enables is in the returned registry, whether or
\* not another record of the file is malformed: the enabled core tools, and
\* the enabled community tools that have their credentials and load.
C19_ConfigErrorExcludesOne ==
    reg_pc = "done" =>
        /\ \A n \in tools_config.core_tools : Present(n)
        /\ \A i \in DOMAIN tools_config.community_tools :
               LET t == tools_config.community_tools[i]
               IN (t.enabled /\ t.env_ok /\ t.loads = "ok") =>
                      Present(t.name)

\* C10: the returned pair is in lock-step: the names of the returned schemas
\* are exactly the keys of the returned implementation map, and no name
\* occurs twice among the returned schemas.
C10_LockStep ==
    reg_pc = "done" =>
        /\ {ret_schemas[i].name : i \in DOMAIN ret_schemas}
               = Keys(ret_implementations)
        /\ \A i, j \in DOMAIN ret_schemas :
               ret_schemas[i].name = ret_schemas[j].name => i = j

\* C10 witness: a build that dropped a duplicate schema and an implementation
\* that had no schema, and still returned three tools
C10_Witness ==
    /\ reg_pc = "done"
    /\ Len(ret_schemas) >= 3
    /\ Len(final_schemas) > Len(ret_schemas)
    /\ Keys(final_implementations) # Keys(ret_implementations)

(* ------------------------ claims C21 .. C30 ---------------------------- *)

\* C21 (as claimed): every tool call the invoker has finished with, whatever
\* its outcome, has been handed to the audit log exactly once.
C21_OneLogPerCall ==
    \A i \in 1..Len(batch) : IsDone(batch[i]) => batch[i].logged = 1

\* positions of the assistant messages of the record that request calls
CallMsgs == {k \in 1..Len(history) : history[k].tool_calls # <<>>}

\* the calls of tname requested by the assistant messages of the record
RequestsOf(tname) ==
    {<<k, i>> \in CallMsgs \X (1..MaxCalls) :
        /\ i \in DOMAIN history[k].function_names
        /\ history[k].function_names[i] = tname}

\* the tool-call ids requested by the assistant message at position k
RequestedIds(k) == Range(history[k].tool_calls)

\* C22: each requested tool call is consumed exactly once: the invoker runs
\* on it one time (not at all while its task has not started), no call id is
\* requested by two assistant messages, the tasks of a batch are distinct
\* calls of the latest requesting message, and no implementation has been
\* invoked more often than calls of its name were requested.
C22_ConsumedOnce ==
    /\ \A i \in 1..Len(batch) :
           /\ batch[i].dispatched = IF batch[i].st = "pending" THEN 0 ELSE 1
           /\ \A j \in 1..Len(batch) : batch[i].id = batch[j].id => i = j
           /\ \E k \in CallMsgs :
                  /\ batch[i].id \in RequestedIds(k)
                  /\ \A m \in CallMsgs : m <= k
    /\ \A k, m \in CallMsgs :
           RequestedIds(k) \cap RequestedIds(m) # {} => k = m
    /\ \A n \in DOMAIN impl_calls :
           impl_calls[n] > 0 => impl_calls[n] <= Cardinality(RequestsOf(n))

\* C22 witness: a second turn has dispatched a call after the first turn
\* dispatched one and returned, and two invocations were made for the two
\* requests
C22_Witness ==
    /\ turns = 2
    /\ \E k, m \in 1..Len(history) : k < m /\ RequestedIds(k) # {}
           /\ RequestedIds(m) # {}
    /\ \E i \in 1..Len(batch) : batch[i].st = "returned" /\ batch[i].called
    /\ impl_calls["calculator"] + impl_calls["append_note"] = 2

\* C23: a completion request names the high-power model exactly when a call
\* of enable_high_brain_power was requested before it in the session: the
\* request being awaited looks at the whole record, and the request that
\* produced the batch being executed looks at the record before that batch.
C23_HighPowerFromNextRequest ==
    /\ pc = "awaiting" =>
           request_model =
               IF Requests("enable_high_brain_power") # {}
               THEN HIGH_POWER_MODEL ELSE MODEL_NAME
    /\ pc = "executing" =>
           request_model =
               IF \E k \in Requests("enable_high_brain_power") :
                      k < Len(history)
               THEN HIGH_POWER_MODEL ELSE MODEL_NAME

\* C23 witness: the first turn requested enable_high_brain_power under the
\* default model and its second request names the high-power model
C23_Witness ==
    /\ turns = 1
    /\ pc = "awaiting"
    /\ nCompletions = 2
    /\ Requests("enable_high_brain_power") # {}
    /\ request_model = HIGH_POWER_MODEL

\* names of the schemas in seq that source src supplied
NamesFrom(seq, src) ==
    {seq[i].name : i \in {j \in DOMAIN seq : seq[j].src = src}}

\* names in map m whose implementation source src supplied
ImplsFrom(m, src) == {n \in DOMAIN m : m[n].src = src}

\* C24: the registry never holds both retrieval sets, while it is merged and
\* when it is returned: no RAG tool (schema or implementation) next to a
\* fallback tool, no RAG tool unless semantic search is enabled, neither set
\* when the obsidian tools are off, and once the obsidian step is over
\* without a RAG tool (semantic search off or RAG initialisation failed) no
\* RAG implementation is left behind.
C24_OneRetrievalSet ==
    LET rag == NamesFrom(final_schemas, "rag")
                   \cup ImplsFrom(final_implementations, "rag")
                   \cup NamesFrom(ret_schemas, "rag")
                   \cup ImplsFrom(ret_implementations, "rag")
        fallback == NamesFrom(final_schemas, "fallback")
                        \cup ImplsFrom(final_implementations, "fallback")
                        \cup NamesFrom(ret_schemas, "fallback")
                        \cup ImplsFrom(ret_implementations, "fallback")
    IN /\ rag = {} \/ fallback = {}
       /\ rag \subseteq Range(RagToolSchemas)
       /\ fallback \subseteq Range(OBSIDIAN_FALLBACK_SCHEMAS)
       /\ ~settings.use_semantic_search => rag = {}
       /\ ~settings.include_obsidian_tools => rag = {} /\ fallback = {}
       /\ NamesFrom(final_schemas, "rag") = {} =>
              ImplsFrom(final_implementations, "rag") = {}
       /\ reg_pc = "done" =>
              \A n \in Range(RagToolSchemas)
                       \cup Range(OBSIDIAN_FALLBACK_SCHEMAS) :
                  /\ Present(n) <=> ret_implementations[n] # NoImpl
                  /\ Present(n) <=>
                         \E i \in DOMAIN ret_schemas : ret_schemas[i].name = n

\* C24 witness: semantic search was enabled but RAG initialisation failed:
\* the build returned the fallback tool and no RAG tool
C24_Witness ==
    /\ reg_pc = "done"
    /\ settings.use_semantic_search
    /\ settings.include_obsidian_tools
    /\ Present("list_vault_files")
    /\ ~Present("semantic_search")
    /\ ret_implementations["semantic_search"] = NoImpl

\* C25 (as claimed): schema normalisation never raises, whatever the
\* candidates are.
C25_NormalisationNeverRaises == reg_pc # "raised"

\* C26: the step that starts a turn appends the last element of the input
\* of run, and nothing else, when that element has role user, and appends
\* nothing otherwise (empty input included); either way the first completion
\* request of the turn is issued in that step.
C26_AppendsLastUserOnly ==
    [][(pc = "idle" /\ turns' = turns + 1) =>
           LET n == Len(conversation')
           IN /\ history' =
                     IF n > 0 /\ conversation'[n].role = "user"
                     THEN Append(history, conversation'[n])
                     ELSE history
              /\ pc' = "awaiting"
              /\ nCompletions' = 1]_vars

\* C26 witness: a second turn was started on an input whose last element is
\* no user message: its first request is outstanding and the record still
\* ends with the reply of the first turn, which had appended the last, not
\* the first, element of its input
C26_Witness ==
    /\ turns = 2
    /\ pc = "awaiting"
    /\ nCompletions = 1
    /\ conversation = <<UserMsg, AssistantText("answer")>>
    /\ Len(history) = 3
    /\ history[2] = OtherUserMsg
    /\ history[3].role = "assistant"

\* C27 (as claimed): run has no bound of its own on the iterations of a
\* turn: when every tool call terminates and the service gives a "stop"
\* after finitely many "tool_calls" responses the turn eventually returns,
\* after exactly as many batches as the service asked for, and a turn whose
\* service always answers "tool_calls" never returns.
C27_NoIterationBound ==
    /\ (outcome = "running" /\ planned # AlwaysToolCalls)
           ~> (outcome = "returned" /\ nBatches = planned)
    /\ [](planned = AlwaysToolCalls => outcome # "returned")

\* C28: a mode flag changes only in the step in which the invoker takes up
\* a call of a control tool, and then only the flag of that tool changes, to
\* its set value; every other tool call and every other step of a turn or of
\* the session leaves exit_requested, reset_requested, private_chat and
\* model_name as they are.
C28_FlagsFrame ==
    [][Flags' # Flags =>
           /\ pc = "executing"
           /\ HasPending(batch)
           /\ LET c == batch[FirstPending(batch)]
              IN /\ c.name \in ControlTools
                 /\ batch'[FirstPending(batch)].st # "pending"
                 /\ exit_requested' # exit_requested =>
                        c.name = "quit_chat" /\ exit_requested'
                 /\ reset_requested' # reset_requested =>
                        c.name = "reset_chat" /\ reset_requested'
                 /\ private_chat' # private_chat =>
                        c.name = "enable_private_mode" /\ private_chat'
                 /\ model_name' # model_name =>
                        /\ c.name = "enable_high_brain_power"
                        /\ model_name' = HIGH_POWER_MODEL]_vars

\* C28 witness: a batch of a calculator call and an enable_high_brain_power
\* call is over: the model was switched and no other flag has changed
C28_Witness ==
    /\ pc = "awaiting"
    /\ Len(batch) = 2
    /\ batch[1].name = "calculator" /\ batch[1].called
    /\ batch[1].st = "returned"
    /\ batch[2].name = "enable_high_brain_power"
    /\ model_name = HIGH_POWER_MODEL
    /\ ~exit_requested /\ ~reset_requested /\ ~private_chat
    /\ nCompletions = 2

\* C29 (as claimed): every call of a note-writing tool taken up in private
\* mode returns the fixed block message, registered or not, and a call
\* returns "unknown tool" only when its name is unregistered and not blocked.
C29_GateBeforeLookup ==
    \A i \in 1..Len(batch) :
        /\ (batch[i].st # "pending" /\ batch[i].priv
                /\ batch[i].name \in NoteWritingTools) =>
               batch[i].st = "returned" /\ batch[i].result = BlockedMsg
        /\ batch[i].result = UnknownMsg =>
               /\ batch[i].name \notin tool_implementations
               /\ ~(batch[i].priv /\ batch[i].name \in NoteWritingTools)

\* C29 (amended): the gate comes before the lookup for every call whose
\* arguments parse: taken up in private mode, a call of a note-writing tool
\* returns the fixed block message whether or not the name is registered,
\* and "unknown tool" is returned exactly for the parsed calls of an
\* unregistered name that the gate does not block.
C29_GateBeforeLookupParsed ==
    \A i \in 1..Len(batch) :
        (batch[i].st # "pending" /\ ~JsonLoadsRaises(batch[i].args)) =>
            LET blocked == batch[i].priv /\ batch[i].name \in NoteWritingTools
            IN /\ blocked =>
                      /\ batch[i].st = "returned"
                      /\ batch[i].result = BlockedMsg
                      /\ ~batch[i].called
               /\ batch[i].result = UnknownMsg <=>
                      (batch[i].name \notin tool_implementations /\ ~blocked)

\* C29 witness: a call of append_core_memory, which has no implementation
\* registered, was taken up in private mode and its block message is in the
\* record
C29_Witness ==
    /\ "append_core_memory" \notin tool_implementations
    /\ \E i \in 1..Len(batch) :
           /\ batch[i].name = "append_core_memory"
           /\ batch[i].priv
           /\ batch[i].st = "returned"
           /\ batch[i].result = BlockedMsg
           /\ \E k \in ToolMsgIndexes(batch[i].id) :
                  history[k].content = BlockedMsg

\* the remote-server source failed while converting a tool: the tool it was
\* registering last has its implementation in the merged map and no schema
McpConversionFailed ==
    \E n \in RegNames :
        /\ final_implementations[n].src = "mcp"
        /\ \A i \in DOMAIN final_schemas :
               ~(final_schemas[i].src = "mcp"
                     /\ final_schemas[i].idx = final_implementations[n].idx)

\* C30 (as claimed): when loading the remote-server source failed, the
\* returned registry holds no schema and no implementation of that source.
C30_McpFailureContributesNothing ==
    (reg_pc = "done" /\ McpConversionFailed) =>
        /\ NamesFrom(ret_schemas, "mcp") = {}
        /\ ImplsFrom(ret_implementations, "mcp") = {}

(* ------------------------ claims C31 .. C38 ---------------------------- *)

\* C31: private mode blocks the note-writing tools only: a call of any other
\* registered tool taken up in private mode is never answered with the block
\* message and reaches its implementation exactly when it would with private
\* mode off (whenever its arguments can be passed on), ending with the
\* implementation's value or its error; and a turn ends abnormally only for
\* a failed completion request or a call that raised, never for the mode.
C31_PrivateBlocksOnlyNotes ==
    /\ \A i \in 1..Len(batch) :
           (/\ batch[i].st # "pending"
            /\ batch[i].priv
            /\ batch[i].name \notin NoteWritingTools
            /\ batch[i].name \in tool_implementations
            /\ batch[i].args # "malformed") =>
               /\ batch[i].result # BlockedMsg
               /\ batch[i].called <=>
                      ~(batch[i].args = "nonobject"
                            /\ Convention(batch[i].name) # "tool")
               /\ batch[i].st = "returned" =>
                      batch[i].result =
                          IF batch[i].exc = "impl" THEN ErrorMsg ELSE OkMsg
    /\ (TurnEnded /\ private_chat /\ outcome # "returned") =>
           \/ outcome = "completion_error"
           \/ \E i \in 1..Len(batch) : batch[i].st = "raised"

\* C31 witness: a turn switched private mode on, then dispatched a calculator
\* call to its implementation, and returned
C31_Witness ==
    /\ private_chat
    /\ TurnEnded
    /\ outcome = "returned"
    /\ \E i \in 1..Len(batch) :
           /\ batch[i].name = "calculator"
           /\ batch[i].priv
           /\ batch[i].called
           /\ batch[i].result = OkMsg
           /\ \E k \in ToolMsgIndexes(batch[i].id) :
                  history[k].content = OkMsg

\* the assistant message at position k is followed at once by one tool
\* message for each call it requests, and by no other tool message
Answered(k) ==
    LET n == Len(history[k].tool_calls)
    IN /\ k + n <= Len(history)
       /\ \A m \in (k + 1)..(k + n) : history[m].role = "tool"
       /\ \A i \in 1..n :
              Cardinality({m \in (k + 1)..(k + n) :
                  history[m].tool_call_id = history[k].tool_calls[i]}) = 1
       /\ k + n < Len(history) => history[k + n + 1].role # "tool"

\* C32 (as claimed): whenever a completion request is outstanding, in the
\* first turn or a later one, every assistant message of the record that
\* carries tool calls is immediately followed by exactly one tool message
\* for each of its calls.
C32_RecordWellFormedAtRequest ==
    pc = "awaiting" =>
        \A k \in 1..Len(history) :
            history[k].tool_calls # <<>> => Answered(k)

\* C33 (as claimed): in the returned registry the schema and the
\* implementation of every tool name come from the same source.
C33_SchemaAndImplSameSource ==
    reg_pc = "done" =>
        \A i \in DOMAIN ret_schemas :
            ret_implementations[ret_schemas[i].name].src = ret_schemas[i].src

\* C34 (as claimed): in a batch, a note-writing call listed after a call of
\* enable_private_mode is blocked and never reaches its implementation, and
\* a note-writing call with no such call before it meets the gate with the
\* flag as it was before the batch, however the running tools interleave.
C34_GateFixedByCallOrder ==
    \A j \in 1..Len(batch) :
        (batch[j].st # "pending" /\ batch[j].name \in NoteWritingTools) =>
            LET switched == \E i \in 1..(j - 1) :
                                batch[i].name = "enable_private_mode"
            IN /\ switched =>
                      batch[j].result = BlockedMsg /\ ~batch[j].called
               /\ ~switched => batch[j].priv = batch[j].before

\* C34 (amended): the same with the switch made only by a call of
\* enable_private_mode whose arguments parse, and the block message given to
\* the note-writing calls whose arguments parse: the flag a note-writing call
\* meets is the flag from before the batch or one set by a parsed
\* enable_private_mode listed before it; met with the flag set the call never
\* reaches its implementation, met with it clear a parsed call of a
\* registered tool does.
C34_GateFixedByParsedCallOrder ==
    \A j \in 1..Len(batch) :
        (batch[j].st # "pending" /\ batch[j].name \in NoteWritingTools) =>
            LET switched == \E i \in 1..(j - 1) :
                                /\ batch[i].name = "enable_private_mode"
                                /\ ~JsonLoadsRaises(batch[i].args)
                parsed == ~JsonLoadsRaises(batch[j].args)
            IN /\ batch[j].priv = (batch[j].before \/ switched)
               /\ batch[j].priv =>
                      /\ ~batch[j].called
                      /\ parsed => /\ batch[j].st = "returned"
                                   /\ batch[j].result = BlockedMsg
               /\ (~batch[j].priv /\ parsed
                       /\ batch[j].name \in tool_implementations) =>
                      batch[j].called

\* C34 witness: the append_note call listed after enable_private_mode has
\* its block message while the implementation of enable_private_mode, started
\* before it, is still running
C34_Witness ==
    /\ Len(batch) = 2
    /\ batch[1].name = "enable_private_mode"
    /\ batch[1].st = "running"
    /\ ~batch[1].before
    /\ batch[2].name = "append_note"
    /\ batch[2].result = BlockedMsg
    /\ impl_calls["append_note"] = 0

\* C35: wherever tool messages follow an assistant message that requests
\* tool calls, they answer its calls in the order in which it lists them,
\* and the messages of the latest batch carry the results of its tasks in
\* that order, whatever the order in which the tasks finished.
C35_ResultsInRequestOrder ==
    /\ \A k \in 1..Len(history) :
           (/\ history[k].tool_calls # <<>>
            /\ k < Len(history)
            /\ history[k + 1].role = "tool") =>
               \A i \in 1..Len(history[k].tool_calls) :
                   /\ k + i <= Len(history)
                   /\ history[k + i].role = "tool"
                   /\ history[k + i].tool_call_id = history[k].tool_calls[i]
    /\ (pc = "awaiting" /\ batch # <<>> /\ Len(history) > Len(batch)) =>
           \A i \in 1..Len(batch) :
               history[Len(history) - Len(batch) + i] = ToolMsg(batch[i])

\* C35 witness: the results of a batch whose second task finished before its
\* first, with different results, are in the record
C35_Witness ==
    /\ pc = "awaiting"
    /\ Len(batch) = 2
    /\ batch[1].overtaken
    /\ batch[1].called /\ batch[2].called
    /\ batch[1].result = OkMsg /\ batch[2].result = ErrorMsg
    /\ history[Len(history) - 1] = ToolMsg(batch[1])
    /\ history[Len(history)] = ToolMsg(batch[2])

\* C36: within the lifetime of an agent the mode flags are monotonic: no
\* step takes exit_requested, reset_requested or private_chat from true to
\* false, and none takes model_name from the high-power model to another.
C36_FlagsMonotonic ==
    [][/\ exit_requested => exit_requested'
       /\ reset_requested => reset_requested'
       /\ private_chat => private_chat'
       /\ model_name = HIGH_POWER_MODEL =>
              model_name' = HIGH_POWER_MODEL]_vars

\* C36 witness: private mode was switched on in the first turn and is still
\* on after a second turn in which reset_chat was called
C36_Witness ==
    /\ turns = 2
    /\ pc = "idle"
    /\ outcome = "returned"
    /\ nextId = 3
    /\ Len(batch) = 1
    /\ batch[1].id = 2
    /\ batch[1].name = "reset_chat"
    /\ batch[1].st = "returned"
    /\ reset_requested
    /\ private_chat
    /\ ~exit_requested

\* C37: when a turn in which both quit_chat and reset_chat were requested
\* has returned, both flags are set and the step in which voice_chat deals
\* with the turn is the exit: voice_chat returns, the agent and its record
\* stay as they are (no new agent), and the summary is saved once, or not at
\* all in a private session; the reset branch is never taken for that turn.
C37_ExitBeforeReset ==
    /\ []((/\ pc = "idle" /\ outcome = "returned"
           /\ RequestedInTurn("quit_chat")
           /\ RequestedInTurn("reset_chat")) =>
              /\ exit_requested /\ reset_requested
              /\ ctl # "reset_error"
              /\ handled = turns =>
                     /\ ctl = "exit"
                     /\ Len(summaries) = IF private_chat THEN 0 ELSE 1)
    /\ [][(/\ RequestedInTurn("quit_chat")
           /\ RequestedInTurn("reset_chat")
           /\ handled < turns
           /\ handled' = turns
           /\ outcome = "returned") =>
              /\ ctl' = "exit"
              /\ history' = history
              /\ Flags' = Flags
              /\ turns' = turns
              /\ Len(summaries') <= 1]_vars

\* C37 witness: voice_chat has returned after a turn whose batch requested
\* reset_chat and then quit_chat; the summary was saved once
C37_Witness ==
    /\ ctl = "exit"
    /\ Len(batch) = 2
    /\ batch[1].name = "reset_chat"
    /\ batch[2].name = "quit_chat"
    /\ RequestedInTurn("quit_chat")
    /\ RequestedInTurn("reset_chat")
    /\ exit_requested /\ reset_requested
    /\ Len(summaries) = 1
    /\ summaries[1] = history

\* C38 (as claimed): whenever the waiting-music task has been started, the
\* stop event is eventually set, the task ends, and voice_chat gets past its
\* await of the task to the exit and reset checks: it is back at the top of
\* its loop, has returned, or is in the reset branch, with the turn dealt
\* with.
C38_MusicAlwaysStopped ==
    (music_task = "playing") ~>
        (/\ stop_chime
         /\ music_task = "done"
         /\ handled = turns
         /\ ctl \in {"loop", "exit", "reset_error"})

====
